---- MODULE Spec2Model ----
(***************************************************************************)
(* Model of the vis_augmenter vega helpers                                 *)
(*   src/src/plugins/vis_augmenter/public/vega/helpers.ts                  *)
(* addMissingRowsToTableBounds pads a datatable to the chart bounds,       *)
(* addPointInTimeEventsLayersToTable bins the events of every vis layer    *)
(* into the nearest row, generateVisLayerFilterString builds the vega      *)
(* filter expression over the vis layer columns.                           *)
(*                                                                         *)
(* Tables live in a heap of objects addressed by references, as in         *)
(* JavaScript: the caller's datatable is one object, cloneDeep allocates   *)
(* another, and every write of the helpers goes through a reference.       *)
(* Times are integers (milliseconds): moment.duration(..).asMilliseconds() *)
(* and new Date(..).valueOf() of helpers.ts:101-104 are library            *)
(* conversions whose results are the inputs of the model.                  *)
(***************************************************************************)
EXTENDS Integers, Sequences, FiniteSets, TLC

VARIABLES
    heap,               \* reference -> table object [rows, columns]
    dimensions,         \* argument: [x |-> [label, params |-> [interval, bounds]]]
    visLayers,          \* argument: sequence of PointInTimeEventsVisLayer
    augmentedTable,     \* reference held by the local of that name
    pc,                 \* position in the helpers' code
    dataEndTime,        \* the local of that name, read before the loops
    curTime,            \* curStartTime / curEndTime / curTime of the loops
    layerIndex,         \* index (1-based) of the layer `every` visits next
    rowIndex,           \* the row cursor of the binning loop (0-based)
    sortedTimestamps,   \* the sorted timestamps of the current layer
    tsIndex,            \* index (1-based) of the timestamp forEach visits next
    rowIndexToInsert,   \* the local of that name (0-based), Undefined before
    returned,           \* reference addPointInTimeEventsLayersToTable returns
    visLayerColumnIds,  \* argument of generateVisLayerFilterString
    datum,              \* a row the filter expression is evaluated on
    filterString,       \* result of generateVisLayerFilterString
    route,              \* a request in the connection-test route handler
    flyout              \* a mounted SaveQueryFlyout and its calls of onSave

vars == <<heap, dimensions, visLayers, augmentedTable, pc, dataEndTime, curTime, layerIndex,
          rowIndex, sortedTimestamps, tsIndex, rowIndexToInsert, returned,
          visLayerColumnIds, datum, filterString, route, flyout>>

tableVars == <<heap, dimensions, visLayers, augmentedTable, dataEndTime, curTime, layerIndex,
               rowIndex, sortedTimestamps, tsIndex, rowIndexToInsert, returned>>

filterVars == <<visLayerColumnIds, datum, filterString>>

handlerVars == <<route, flyout>>

-----------------------------------------------------------------------------
(* Bounds of the model *)

\* Axis keys, chart bounds and event timestamps are drawn from 0..MaxTime
MaxTime == 2
\* A source table has at most MaxRows rows
MaxRows == 2
\* The vis layers of a call hold at most MaxEvents events in all
MaxEvents == 2
\* generateVisLayerFilterString is given at most MaxIds column ids
MaxIds == 2
\* The calls whose termination is checked: rows of the source table, events
MaxFairRows == 1
MaxFairEvents == 1
\* The form of a SaveQueryFlyout saves at most MaxSaves times and asks to
\* close at most MaxFormCloses times
MaxSaves == 2
MaxFormCloses == 1

-----------------------------------------------------------------------------
(* Values *)

\* undefined where a number is expected: a local that is declared and not yet
\* assigned (a row index is >= 0), a property an object does not have
Undefined == -1

VIS_LAYER_COLUMN_TYPE == "vis_layer"

\* References: the caller's datatable and the object cloneDeep allocates.
DatatableRef == "datatable"
CloneRef == "clone"
Refs == {DatatableRef, CloneRef}
NoRef == "none"

\* No error was thrown: the value of route.thrown outside the catch block
NoError == [statusCode |-> Undefined, message |-> "", body |-> [defined |-> FALSE, error |-> ""]]

\* No request is being handled, no flyout is mounted
NoRequest == [pc |-> "idle", thrown |-> NoError, validatorRuns |-> 0, responses |-> <<>>]
NoFlyout == [mounted |-> FALSE, savedQuery |-> FALSE, saveAsNew |-> FALSE, calls |-> <<>>,
             closes |-> 0, formCloses |-> 0]

NoTable == [rows |-> <<>>, columns |-> <<>>]

\* The x axis column and the metric column of the source table.
XLabel == "time"
SourceColumns ==
    << [id |-> "x", name |-> XLabel, type |-> "date"],
       [id |-> "y", name |-> "count", type |-> "number"] >>

\* The plugin resources of the vis layers of a call, in order
LayerIds == <<"L1", "L2">>
LayerNames == <<"N1", "N2">>

\* The bucket intervals of the x dimension
Intervals == {1, 2, 3}

-----------------------------------------------------------------------------
(* Rows: a row is a function from the field keys it holds to numbers *)

HasField(row, key) == key \in DOMAIN row

\* lodash get(row, key, default)
Get(row, key, default) == IF HasField(row, key) THEN row[key] ELSE default

\* row[key] = value, and { ...row, [key]: value }
SetField(row, key, value) ==
    [k \in (DOMAIN row) \cup {key} |-> IF k = key THEN value ELSE row[k]]

\* { [xAxisId]: time }
NewRow(xAxisId, time) == [k \in {xAxisId} |-> time]

Abs(n) == IF n < 0 THEN -n ELSE n

\* lodash isEmpty on an array
IsEmpty(seq) == Len(seq) = 0

\* getXAxisId: the id of the first column named like the x dimension
GetXAxisId(dims, columns) ==
    SelectSeq(columns, LAMBDA column : column.name = dims.x.label)[1].id

\* isVisLayerColumn
IsVisLayerColumn(column) == column.type = VIS_LAYER_COLUMN_TYPE

\* Array.prototype.sort((n1, n2) => n1 - n2): ascending, by insertion
RECURSIVE InsertSorted(_, _)
InsertSorted(n, sorted) ==
    IF sorted = <<>> THEN <<n>>
    ELSE IF n - Head(sorted) < 0 THEN <<n>> \o sorted
    ELSE <<Head(sorted)>> \o InsertSorted(n, Tail(sorted))

RECURSIVE SortAscending(_)
SortAscending(seq) ==
    IF seq = <<>> THEN <<>>
    ELSE InsertSorted(seq[Len(seq)], SortAscending(SubSeq(seq, 1, Len(seq) - 1)))

\* visLayer.events.map((event) => event.timestamp).sort(...)
SortedTimestampsOf(visLayer) ==
    SortAscending([i \in 1..Len(visLayer.events) |-> visLayer.events[i].timestamp])

-----------------------------------------------------------------------------
(* The heap *)

\* Mutant of CloneDeep: the table is not copied, the reference is shared
CloneShared(h, ref) == [ref |-> ref, heap |-> h]

\* lodash cloneDeep: a fresh object holding a copy of the table
CloneDeep(h, ref) ==
    [ref |-> CloneRef, heap |-> [h EXCEPT ![CloneRef] = h[ref]]]

WriteRows(h, ref, rows) == [h EXCEPT ![ref].rows = rows]

WriteColumns(h, ref, columns) == [h EXCEPT ![ref].columns = columns]

\* The table the local augmentedTable refers to, and its parts
Augmented == heap[augmentedTable]
AugRows == Augmented.rows
AugColumns == Augmented.columns
XAxisId == GetXAxisId(dimensions, AugColumns)

IntervalMillis == dimensions.x.params.interval
ChartStartTime == dimensions.x.params.bounds.min
ChartEndTime == dimensions.x.params.bounds.max

-----------------------------------------------------------------------------
(* Inputs *)

Times == 0..MaxTime

NonDecreasing(keys) == \A i \in 1..(Len(keys) - 1) : keys[i] <= keys[i + 1]

\* Axis keys of a source table: the buckets of a histogram, in order
SourceKeySeqs ==
    {keys \in UNION {[1..n -> Times] : n \in 0..MaxRows} : NonDecreasing(keys)}

\* Source rows hold the axis key and a metric (the position in the source)
SourceRows(keys) ==
    [i \in 1..Len(keys) |-> [k \in {"x", "y"} |-> IF k = "x" THEN keys[i] ELSE i]]

SourceTables ==
    {[rows |-> SourceRows(keys), columns |-> SourceColumns] : keys \in SourceKeySeqs}

DimensionsSet ==
    {[x |-> [label |-> XLabel,
             params |-> [interval |-> i, bounds |-> [min |-> lo, max |-> hi]]]] :
        i \in Intervals, lo \in Times, hi \in Times}

EventSeqs ==
    UNION {[1..n -> [timestamp : Times]] : n \in 0..MaxEvents}

RECURSIVE TotalEvents(_)
TotalEvents(eventSeqs) ==
    IF eventSeqs = <<>> THEN 0
    ELSE Len(Head(eventSeqs)) + TotalEvents(Tail(eventSeqs))

\* Lists of vis layers with distinct plugin resource ids, MaxEvents events in all
VisLayerLists ==
    {[i \in 1..Len(evs) |->
        [pluginResource |-> [id |-> LayerIds[i], name |-> LayerNames[i]],
         events |-> evs[i]]] :
     evs \in {e \in UNION {[1..n -> EventSeqs] : n \in 0..Len(LayerIds)} :
                TotalEvents(e) <= MaxEvents}}

-----------------------------------------------------------------------------
(* addPointInTimeEventsLayersToTable(datatable, dimensions, visLayers) *)

\* The state when the helper is called with a table and a list of vis layers
\* of the given sets
Called(tables, visLayerLists) ==
    /\ \E table \in tables :
         heap = [ref \in Refs |-> IF ref = DatatableRef THEN table ELSE NoTable]
    /\ dimensions \in DimensionsSet
    /\ visLayers \in visLayerLists
    /\ augmentedTable = NoRef
    /\ pc = "call"
    /\ dataEndTime = 0
    /\ curTime = 0
    /\ layerIndex = 1
    /\ rowIndex = 0
    /\ sortedTimestamps = <<>>
    /\ tsIndex = 1
    /\ rowIndexToInsert = Undefined
    /\ returned = NoRef
    /\ visLayerColumnIds = <<>>
    /\ datum = <<>>
    /\ filterString = <<>>
    /\ route = NoRequest
    /\ flyout = NoFlyout

Init == Called(SourceTables, VisLayerLists)

\* addMissingRowsToTableBounds, lines 100-110 and 127: clone the table, read
\* the data bounds and enter the loops of the branch taken
CloneTable ==
    /\ pc = "call"
    /\ LET cloned == CloneDeep(heap, DatatableRef)
           table == cloned.heap[cloned.ref]
           xAxisId == GetXAxisId(dimensions, table.columns)
       IN  /\ heap' = cloned.heap
           /\ augmentedTable' = cloned.ref
           /\ IF ~IsEmpty(table.rows)
              THEN /\ dataEndTime' = table.rows[Len(table.rows)][xAxisId]
                   /\ curTime' = table.rows[1][xAxisId]
                   /\ pc' = "prepend"
              ELSE /\ dataEndTime' = dataEndTime
                   /\ curTime' = ChartStartTime
                   /\ pc' = "fill"
    /\ UNCHANGED <<dimensions, visLayers, layerIndex, rowIndex, sortedTimestamps,
                   tsIndex, rowIndexToInsert, returned, filterVars, handlerVars>>

loopFrame == <<dimensions, visLayers, augmentedTable, dataEndTime, layerIndex, rowIndex,
               sortedTimestamps, tsIndex, rowIndexToInsert, returned, filterVars, handlerVars>>

\* Mutant of PrependContinues: the start of the data is compared with the end
\* of the chart
PrependContinuesChartEnd(cur, chartStart) == cur > ChartEndTime

\* while (curStartTime > chartStartTime)
PrependContinues(cur, chartStart) == cur > chartStart

\* lines 111-116: one iteration, curStartTime -= intervalMillis; rows.unshift
PrependRow ==
    /\ pc = "prepend"
    /\ PrependContinues(curTime, ChartStartTime)
    /\ curTime' = curTime - IntervalMillis
    /\ heap' = WriteRows(heap, augmentedTable, <<NewRow(XAxisId, curTime')>> \o AugRows)
    /\ pc' = "prepend"
    /\ UNCHANGED loopFrame

\* lines 111 and 118: the loop ends, curEndTime = dataEndTime
PrependDone ==
    /\ pc = "prepend"
    /\ ~PrependContinues(curTime, ChartStartTime)
    /\ curTime' = dataEndTime
    /\ pc' = "append"
    /\ UNCHANGED <<heap, loopFrame>>

\* Mutant of AppendRow: the row is pushed before curEndTime is stepped, as in
\* the loop of the empty table
AppendRowPushFirst ==
    /\ pc = "append"
    /\ curTime < ChartEndTime
    /\ heap' = WriteRows(heap, augmentedTable, Append(AugRows, NewRow(XAxisId, curTime)))
    /\ curTime' = curTime + IntervalMillis
    /\ pc' = "append"
    /\ UNCHANGED loopFrame

\* while (curEndTime < chartEndTime)
AppendContinues(cur, chartEnd) == cur < chartEnd

\* lines 119-124: one iteration, curEndTime += intervalMillis; rows.push
AppendRow ==
    /\ pc = "append"
    /\ AppendContinues(curTime, ChartEndTime)
    /\ curTime' = curTime + IntervalMillis
    /\ heap' = WriteRows(heap, augmentedTable, Append(AugRows, NewRow(XAxisId, curTime')))
    /\ pc' = "append"
    /\ UNCHANGED loopFrame

\* lines 119 and 135: the loop ends, the table is returned
AppendDone ==
    /\ pc = "append"
    /\ ~AppendContinues(curTime, ChartEndTime)
    /\ pc' = "layers"
    /\ UNCHANGED <<heap, curTime, loopFrame>>

\* Mutant of FillContinues: the end of the chart is excluded
FillContinuesExclusive(cur, chartEnd) == cur < chartEnd

\* while (curTime <= chartEndTime)
FillContinues(cur, chartEnd) == cur <= chartEnd

\* lines 128-133: one iteration, rows.push; curTime += intervalMillis
FillRow ==
    /\ pc = "fill"
    /\ FillContinues(curTime, ChartEndTime)
    /\ heap' = WriteRows(heap, augmentedTable, Append(AugRows, NewRow(XAxisId, curTime)))
    /\ curTime' = curTime + IntervalMillis
    /\ pc' = "fill"
    /\ UNCHANGED loopFrame

\* lines 128 and 135: the loop ends, the table is returned
FillDone ==
    /\ pc = "fill"
    /\ ~FillContinues(curTime, ChartEndTime)
    /\ pc' = "layers"
    /\ UNCHANGED <<heap, curTime, loopFrame>>

\* lines 153-161: the column descriptor pushed for a vis layer
VisLayerColumn(visLayer) ==
    [id |-> visLayer.pluginResource.id,
     name |-> visLayer.pluginResource.name,
     type |-> VIS_LAYER_COLUMN_TYPE]

binFrame == <<dimensions, visLayers, augmentedTable, dataEndTime, curTime, returned,
              filterVars, handlerVars>>

\* Array.prototype.every stops at the first callback that returns false
EveryVisits == pc = "layers" /\ ~IsEmpty(visLayers) /\ layerIndex <= Len(visLayers)

\* lines 152-166: the callback on a table without rows pushes the column and
\* returns false
CallbackNoRows ==
    /\ EveryVisits
    /\ Len(AugRows) = 0
    /\ heap' = WriteColumns(heap, augmentedTable,
                            Append(AugColumns, VisLayerColumn(visLayers[layerIndex])))
    /\ pc' = "return"
    /\ UNCHANGED <<layerIndex, rowIndex, sortedTimestamps, tsIndex, rowIndexToInsert,
                   binFrame>>

\* lines 152-176: the callback on a table of one row pushes the column, puts
\* all events of the layer in the row and returns false
CallbackOneRow ==
    /\ EveryVisits
    /\ Len(AugRows) = 1
    /\ LET visLayer == visLayers[layerIndex]
           visLayerColumnId == visLayer.pluginResource.id
           pushed == WriteColumns(heap, augmentedTable,
                                  Append(AugColumns, VisLayerColumn(visLayer)))
       IN  heap' = WriteRows(pushed, augmentedTable,
                     <<SetField(AugRows[1], visLayerColumnId, Len(visLayer.events))>>)
    /\ pc' = "return"
    /\ UNCHANGED <<layerIndex, rowIndex, sortedTimestamps, tsIndex, rowIndexToInsert,
                   binFrame>>

\* lines 152-190: the callback on a table of several rows pushes the column,
\* sets the cursor to 0 and sorts the timestamps of the layer
CallbackStartBinning ==
    /\ EveryVisits
    /\ Len(AugRows) > 1
    /\ heap' = WriteColumns(heap, augmentedTable,
                            Append(AugColumns, VisLayerColumn(visLayers[layerIndex])))
    /\ rowIndex' = 0
    /\ sortedTimestamps' = SortedTimestampsOf(visLayers[layerIndex])
    /\ tsIndex' = 1
    /\ rowIndexToInsert' = Undefined
    /\ pc' = "bin"
    /\ UNCHANGED <<layerIndex, binFrame>>

\* Mutant of RowIndexToInsert: a tie goes to the later row
RowIndexToInsertTieLater(rows, xAxisId, cursor, timestamp) ==
    LET smallerVal == rows[cursor + 1][xAxisId]
        higherVal == rows[cursor + 2][xAxisId]
    IN  IF timestamp <= smallerVal THEN cursor
        ELSE IF timestamp <= higherVal
             THEN IF Abs(timestamp - smallerVal) < Abs(timestamp - higherVal)
                  THEN cursor
                  ELSE cursor + 1
        ELSE IF cursor + 1 = Len(rows) - 1 THEN cursor + 1
        ELSE Undefined

\* Mutant of RowIndexToInsert: the right bound of the chart is not recognised,
\* the cursor moves on
RowIndexToInsertNoRightBound(rows, xAxisId, cursor, timestamp) ==
    LET smallerVal == rows[cursor + 1][xAxisId]
        higherVal == rows[cursor + 2][xAxisId]
    IN  IF timestamp <= smallerVal THEN cursor
        ELSE IF timestamp <= higherVal
             THEN IF Abs(timestamp - smallerVal) <= Abs(timestamp - higherVal)
                  THEN cursor
                  ELSE cursor + 1
        ELSE Undefined

\* lines 198-215: the row a timestamp goes to, seen from the cursor, or
\* Undefined when the cursor has to move on
RowIndexToInsert(rows, xAxisId, cursor, timestamp) ==
    LET smallerVal == rows[cursor + 1][xAxisId]
        higherVal == rows[cursor + 2][xAxisId]
    IN  IF timestamp <= smallerVal THEN cursor
        ELSE IF timestamp <= higherVal
             THEN IF Abs(timestamp - smallerVal) <= Abs(timestamp - higherVal)
                  THEN cursor
                  ELSE cursor + 1
        ELSE IF cursor + 1 = Len(rows) - 1 THEN cursor + 1
        ELSE Undefined

\* Mutant of IncrementField: every row gets the field, the others with 0
IncrementFieldAllRows(rows, index, visLayerColumnId) ==
    [j \in 1..Len(rows) |->
        SetField(rows[j], visLayerColumnId,
                 Get(rows[j], visLayerColumnId, 0) + (IF j = index + 1 THEN 1 ELSE 0))]

\* lines 218-219: rows[rowIndexToInsert][id] = get(row, id, 0) + 1
IncrementField(rows, index, visLayerColumnId) ==
    [rows EXCEPT ![index + 1] = SetField(@, visLayerColumnId, Get(@, visLayerColumnId, 0) + 1)]

\* Mutant of NextRowIndex: the cursor is not moved before `continue`
NextRowIndexStuck(cursor) == cursor

\* line 213: rowIndex += 1
NextRowIndex(cursor) == cursor + 1

\* lines 191-221: one iteration of the while loop for the current timestamp:
\* either the timestamp is counted in a row and forEach moves on, or the
\* cursor advances; forEach also moves on when the loop condition fails
WhileIteration ==
    /\ pc = "bin"
    /\ tsIndex <= Len(sortedTimestamps)
    /\ IF rowIndex < Len(AugRows) - 1
       THEN LET timestamp == sortedTimestamps[tsIndex]
                target == RowIndexToInsert(AugRows, XAxisId, rowIndex, timestamp)
            IN  IF target = Undefined
                THEN /\ rowIndex' = NextRowIndex(rowIndex)
                     /\ UNCHANGED <<heap, tsIndex, rowIndexToInsert>>
                ELSE /\ rowIndexToInsert' = target
                     /\ heap' = WriteRows(heap, augmentedTable,
                          IncrementField(AugRows, target,
                                         visLayers[layerIndex].pluginResource.id))
                     /\ tsIndex' = tsIndex + 1
                     /\ UNCHANGED rowIndex
       ELSE /\ tsIndex' = tsIndex + 1
            /\ UNCHANGED <<heap, rowIndex, rowIndexToInsert>>
    /\ pc' = "bin"
    /\ UNCHANGED <<layerIndex, sortedTimestamps, binFrame>>

\* lines 190-224: forEach is over (or there was no timestamp), the callback
\* returns true and every visits the next layer
CallbackReturnsTrue ==
    /\ pc = "bin"
    /\ tsIndex > Len(sortedTimestamps)
    /\ layerIndex' = layerIndex + 1
    /\ pc' = "layers"
    /\ UNCHANGED <<heap, rowIndex, sortedTimestamps, tsIndex, rowIndexToInsert, binFrame>>

\* Mutant of ReturnTable: the argument is returned instead of the augmented table
ReturnDatatable ==
    /\ pc = "return" \/ (pc = "layers" /\ ~EveryVisits)
    /\ returned' = DatatableRef
    /\ pc' = "done"
    /\ UNCHANGED <<heap, dimensions, visLayers, augmentedTable, dataEndTime, curTime,
                   layerIndex, rowIndex, sortedTimestamps, tsIndex, rowIndexToInsert,
                   filterVars, handlerVars>>

\* lines 151 and 227: there is no vis layer, or every is over (no layer left,
\* or a callback returned false): augmentedTable is returned
ReturnTable ==
    /\ pc = "return" \/ (pc = "layers" /\ ~EveryVisits)
    /\ returned' = augmentedTable
    /\ pc' = "done"
    /\ UNCHANGED <<heap, dimensions, visLayers, augmentedTable, dataEndTime, curTime,
                   layerIndex, rowIndex, sortedTimestamps, tsIndex, rowIndexToInsert,
                   filterVars, handlerVars>>

Next ==
    \/ CloneTable
    \/ PrependRow
    \/ PrependDone
    \/ AppendRow
    \/ AppendDone
    \/ FillRow
    \/ FillDone
    \/ CallbackNoRows
    \/ CallbackOneRow
    \/ CallbackStartBinning
    \/ WhileIteration
    \/ CallbackReturnsTrue
    \/ ReturnTable

Spec == Init /\ [][Next]_vars

\* The calls with a source table of at most MaxFairRows rows and at most
\* MaxFairEvents events in all
FairSourceTables == {table \in SourceTables : Len(table.rows) <= MaxFairRows}
FairVisLayerLists ==
    {layers \in VisLayerLists :
        TotalEvents([i \in 1..Len(layers) |-> layers[i].events]) <= MaxFairEvents}

InitFair == Called(FairSourceTables, FairVisLayerLists)

\* The call runs to completion: JavaScript runs the synchronous helper step by
\* step without preemption, so a step that can be taken is taken
FairSpec == InitFair /\ [][Next]_vars /\ WF_vars(Next)

-----------------------------------------------------------------------------
(* generateVisLayerFilterString(visLayerColumnIds) *)

\* Strings are sequences of characters. The literals of lines 70, 72 and 75:
DatumOpen == <<"d", "a", "t", "u", "m", "[", "'">>
DatumClose == <<"'", "]", " ", ">", " ", "0">>
OrSeparator == <<" ", "|", "|", " ">>
FalseLiteral == <<"f", "a", "l", "s", "e">>

\* `datum['${visLayerColumnId}'] > 0`
VisLayerPredicate(visLayerColumnId) == DatumOpen \o visLayerColumnId \o DatumClose

\* Array.prototype.join(separator)
RECURSIVE Join(_, _)
Join(strings, separator) ==
    IF strings = <<>> THEN <<>>
    ELSE IF Len(strings) = 1 THEN strings[1]
    ELSE strings[1] \o separator \o Join(Tail(strings), separator)

\* Mutant of GenerateVisLayerFilterString: the empty list is not told apart
GenerateVisLayerFilterStringNoEmptyCase(ids) ==
    Join([i \in 1..Len(ids) |-> VisLayerPredicate(ids[i])], OrSeparator)

\* lines 67-77
GenerateVisLayerFilterString(ids) ==
    IF ~IsEmpty(ids)
    THEN Join([i \in 1..Len(ids) |-> VisLayerPredicate(ids[i])], OrSeparator)
    ELSE FalseLiteral

\* Column ids, and the rows a filter is evaluated on: some of the ids as fields
ColumnIds == {<<"a">>, <<"b">>, <<"a", "b">>}
ColumnIdLists == UNION {[1..n -> ColumnIds] : n \in 0..MaxIds}
Datums == UNION {[fields -> {0, 1}] : fields \in SUBSET ColumnIds}

idleTableVars ==
    /\ heap = [ref \in Refs |-> NoTable]
    /\ dimensions = [x |-> [label |-> XLabel]]
    /\ visLayers = <<>>
    /\ augmentedTable = NoRef
    /\ dataEndTime = 0
    /\ curTime = 0
    /\ layerIndex = 1
    /\ rowIndex = 0
    /\ sortedTimestamps = <<>>
    /\ tsIndex = 1
    /\ rowIndexToInsert = Undefined
    /\ returned = NoRef

InitFilter ==
    /\ idleTableVars
    /\ pc = "filter"
    /\ visLayerColumnIds \in ColumnIdLists
    /\ datum \in Datums
    /\ filterString = <<>>
    /\ route = NoRequest
    /\ flyout = NoFlyout

\* The call of generateVisLayerFilterString
GenerateFilter ==
    /\ pc = "filter"
    /\ filterString' = GenerateVisLayerFilterString(visLayerColumnIds)
    /\ pc' = "filtered"
    /\ UNCHANGED <<tableVars, visLayerColumnIds, datum, handlerVars>>

NextFilter == GenerateFilter

SpecFilter == InitFilter /\ [][NextFilter]_vars

-----------------------------------------------------------------------------
(* registerTestConnectionRoute: the handler of
   POST /internal/data-source-management/validate *)

\* The status code of the custom error when the error carries none
DefaultStatusCode == 500

\* What getDataSourceClient and DataSourceConnectionValidator.validate throw
\* is an error object: statusCode is missing or an HTTP error status, message
\* is a string, body is missing or an object whose error is missing or a string
StatusCodes == {Undefined, 400, 401, 403, 404, 500, 503}
Messages == <<"Unauthorized", "connect ECONNREFUSED">>
BodyErrors == {"", "security_exception"}
Bodies ==
    {[defined |-> FALSE, error |-> ""]}
        \cup {[defined |-> TRUE, error |-> e] : e \in BodyErrors}
Errors ==
    {[statusCode |-> c, message |-> Messages[m], body |-> b] :
        c \in StatusCodes, m \in 1..Len(Messages), b \in Bodies}

\* JavaScript's a || b on numbers and on strings: b when a is falsy
NumberOr(a, b) == IF a = Undefined \/ a = 0 THEN b ELSE a
StringOr(a, b) == IF a = "" THEN b ELSE a

\* The awaits lines 51-69 enclose in the try block
TryBlockClientOnly == {"getDataSourceClient"}
TryBlock == {"getDataSourceClient", "validate"}

\* Where control goes when the operation awaited at `at` rejects
OnReject(at) == IF at \in TryBlock THEN "catch" ELSE "escaped"

\* err.statusCode || 500
StatusCodeOfError(err) == err.statusCode
StatusCode(err) == NumberOr(err.statusCode, DefaultStatusCode)

\* err.body?.error || err.message
AttributesError(err) ==
    StringOr(IF err.body.defined THEN err.body.error ELSE "", err.message)

OkResponse == [kind |-> "ok", statusCode |-> 200, success |-> TRUE, message |-> "",
               error |-> ""]

CustomError(err) ==
    [kind |-> "customError", statusCode |-> StatusCode(err), success |-> FALSE,
     message |-> err.message, error |-> AttributesError(err)]

idleFilterVars ==
    /\ visLayerColumnIds = <<>>
    /\ datum = <<>>
    /\ filterString = <<>>

\* A request arrives: the handler awaits getDataSourceClient
InitRoute ==
    /\ idleTableVars
    /\ idleFilterVars
    /\ pc = "route"
    /\ route = [pc |-> "getDataSourceClient", thrown |-> NoError, validatorRuns |-> 0,
                responses |-> <<>>]
    /\ flyout = NoFlyout

routeFrame == <<tableVars, pc, filterVars, flyout>>

\* Lines 52-62: the client is obtained, the validator is built on it and run
GetDataSourceClientResolves ==
    /\ route.pc = "getDataSourceClient"
    /\ route' = [route EXCEPT !.pc = "validate", !.validatorRuns = @ + 1]
    /\ UNCHANGED routeFrame

GetDataSourceClientRejects ==
    /\ route.pc = "getDataSourceClient"
    /\ \E err \in Errors :
          route' = [route EXCEPT !.pc = OnReject("getDataSourceClient"), !.thrown = err]
    /\ UNCHANGED routeFrame

\* Lines 62-68
ValidateResolves ==
    /\ route.pc = "validate"
    /\ route' = [route EXCEPT !.pc = "returned", !.responses = Append(@, OkResponse)]
    /\ UNCHANGED routeFrame

ValidateRejects ==
    /\ route.pc = "validate"
    /\ \E err \in Errors :
          route' = [route EXCEPT !.pc = OnReject("validate"), !.thrown = err]
    /\ UNCHANGED routeFrame

\* Lines 69-78
CatchReturnsCustomError ==
    /\ route.pc = "catch"
    /\ route' = [route EXCEPT !.pc = "returned",
                              !.responses = Append(@, CustomError(route.thrown))]
    /\ UNCHANGED routeFrame

NextRoute ==
    \/ GetDataSourceClientResolves
    \/ GetDataSourceClientRejects
    \/ ValidateResolves
    \/ ValidateRejects
    \/ CatchReturnsCustomError

SpecRoute == InitRoute /\ [][NextRoute]_vars

-----------------------------------------------------------------------------
(* SaveQueryFlyout *)

\* The settled states of the onSave promise after which the handler calls
\* onClose: onClose() follows the await inside the try block (lines 42-43)
HandlerClosesAlways == {"resolved", "rejected"}
HandlerClosesOn == {"resolved"}

\* How the promise of the handler settles: the catch block does not rethrow
\* (lines 44-46)
HandlerRethrows(settled) == IF settled = "rejected" THEN "rejected" ELSE "fulfilled"
HandlerResult(settled) == "fulfilled"

\* useState(!savedQuery), line 34
InitialSaveAsNewFalse(savedQuery) == FALSE
InitialSaveAsNew(savedQuery) == ~savedQuery

\* The flyout is mounted, with or without a saved query
InitFlyout ==
    /\ idleTableVars
    /\ idleFilterVars
    /\ pc = "flyout"
    /\ route = NoRequest
    /\ \E savedQuery \in BOOLEAN :
          flyout = [mounted |-> TRUE, savedQuery |-> savedQuery,
                    saveAsNew |-> InitialSaveAsNew(savedQuery), calls |-> <<>>,
                    closes |-> 0, formCloses |-> 0]

flyoutFrame == <<tableVars, pc, filterVars, route>>

\* The form calls its onSave: the handler calls the caller's onSave with the
\* current saveAsNew and awaits it (lines 40-42)
FormSaves ==
    /\ flyout.mounted
    /\ Len(flyout.calls) < MaxSaves
    /\ flyout' = [flyout EXCEPT !.calls =
                     Append(@, [saveAsNew |-> flyout.saveAsNew, settled |-> "pending",
                                closed |-> FALSE, result |-> "pending"])]
    /\ UNCHANGED flyoutFrame

\* The flyout after the handler resumed from the await of call i, whose
\* onSave promise settled as given
Resumed(i, settled) ==
    LET closes == settled \in HandlerClosesOn
    IN  [flyout EXCEPT
            !.calls[i] = [@ EXCEPT !.settled = settled,
                                   !.closed = closes,
                                   !.result = HandlerResult(settled)],
            !.closes = IF closes THEN @ + 1 ELSE @]

\* Lines 42-43
OnSaveResolves ==
    /\ flyout.mounted
    /\ \E i \in 1..Len(flyout.calls) :
          /\ flyout.calls[i].settled = "pending"
          /\ flyout' = Resumed(i, "resolved")
    /\ UNCHANGED flyoutFrame

\* Lines 42, 44-48
OnSaveRejects ==
    /\ flyout.mounted
    /\ \E i \in 1..Len(flyout.calls) :
          /\ flyout.calls[i].settled = "pending"
          /\ flyout' = Resumed(i, "rejected")
    /\ UNCHANGED flyoutFrame

\* The form calls its onSaveAsNew: setSaveAsNew(true), line 53
FormSavesAsNew ==
    /\ flyout.mounted
    /\ flyout' = [flyout EXCEPT !.saveAsNew = TRUE]
    /\ UNCHANGED flyoutFrame

\* The form calls its onClose, which is the caller's, line 39
FormCloses ==
    /\ flyout.mounted
    /\ flyout.formCloses < MaxFormCloses
    /\ flyout' = [flyout EXCEPT !.formCloses = @ + 1, !.closes = @ + 1]
    /\ UNCHANGED flyoutFrame

NextFlyout ==
    \/ FormSaves
    \/ OnSaveResolves
    \/ OnSaveRejects
    \/ FormSavesAsNew
    \/ FormCloses

SpecFlyout == InitFlyout /\ [][NextFlyout]_vars

-----------------------------------------------------------------------------
(* Vocabulary of the properties *)

\* The caller's table, the returned table
SourceTable == heap[DatatableRef]
Returned == heap[returned]

Keys(rows, xAxisId) == [i \in 1..Len(rows) |-> rows[i][xAxisId]]

StrictlyIncreasing(keys) == \A i \in 1..(Len(keys) - 1) : keys[i] < keys[i + 1]

\* Consecutive keys differ by exactly the interval
Dense(keys, interval) == \A i \in 1..(Len(keys) - 1) : keys[i + 1] - keys[i] = interval

\* addMissingRowsToTableBounds has returned and no layer has been visited yet
Extended == pc = "layers" /\ layerIndex = 1

Done == pc = "done"

RangeOrdered == ChartStartTime <= ChartEndTime

RECURSIVE ColumnSum(_, _)
ColumnSum(rows, id) ==
    IF rows = <<>> THEN 0
    ELSE Get(Head(rows), id, 0) + ColumnSum(Tail(rows), id)

LayerId(i) == visLayers[i].pluginResource.id

\* The timestamp forEach handled last, once one has been counted
Counted == pc = "bin" /\ rowIndexToInsert # Undefined
LastTimestamp == sortedTimestamps[tsIndex - 1]

Distance(keys, index, timestamp) == Abs(keys[index + 1] - timestamp)

-----------------------------------------------------------------------------
(* C1 *)

\* C1: conservation. When the source table has at least one row and the chart
\* range is ordered, then in the returned table the values of every layer's
\* column sum up to the number of events of the layer.
C1_Conservation ==
    (Done /\ Len(SourceTable.rows) >= 1 /\ RangeOrdered)
        => \A i \in 1..Len(visLayers) :
             ColumnSum(Returned.rows, LayerId(i)) = Len(visLayers[i].events)

-----------------------------------------------------------------------------
(* C2 *)

\* The statement of C2 about the row a timestamp was counted in
NearestBucket(keys, target, timestamp) ==
    /\ \A j \in 0..(Len(keys) - 1) :
         Distance(keys, target, timestamp) <= Distance(keys, j, timestamp)
    /\ \A j \in 0..(Len(keys) - 2) :
         Distance(keys, j, timestamp) = Distance(keys, j + 1, timestamp)
            => target # j + 1
    /\ timestamp < keys[1] => target = 0
    /\ timestamp > keys[Len(keys)] => target = Len(keys) - 1

\* C2 as stated: with non-decreasing axis keys every timestamp is counted in
\* the nearest row, the earlier of two equally distant adjacent rows, the first
\* row when below all keys and the last row when above all keys.
C2_NearestBucketNonDecreasing ==
    (Counted /\ NonDecreasing(Keys(AugRows, XAxisId)))
        => NearestBucket(Keys(AugRows, XAxisId), rowIndexToInsert, LastTimestamp)

\* C2 amended: the same with strictly increasing axis keys.
C2_NearestBucket ==
    (Counted /\ StrictlyIncreasing(Keys(AugRows, XAxisId)))
        => NearestBucket(Keys(AugRows, XAxisId), rowIndexToInsert, LastTimestamp)

\* Witness of C2: the second timestamp of a layer was counted with the cursor
\* carried over from the first, in the row after the cursor's row.
C2_Witness ==
    /\ Counted
    /\ StrictlyIncreasing(Keys(AugRows, XAxisId))
    /\ tsIndex = 3
    /\ rowIndex > 0
    /\ rowIndexToInsert = rowIndex + 1

-----------------------------------------------------------------------------
(* C3 *)

\* C3: the returned columns are the source columns followed by one vis layer
\* column descriptor per vis layer, in the order of the layers, whatever the
\* number of rows.
C3_ColumnPerLayer ==
    Done => Returned.columns =
              SourceTable.columns \o
                [i \in 1..Len(visLayers) |-> VisLayerColumn(visLayers[i])]

-----------------------------------------------------------------------------
(* C4 *)

\* The output of addMissingRowsToTableBounds is dense and has
\* floor((lastKey - firstKey) / interval) + 1 rows
DenseOutput ==
    /\ Len(AugRows) >= 1
    /\ Dense(Keys(AugRows, XAxisId), IntervalMillis)
    /\ Len(AugRows) =
         ((AugRows[Len(AugRows)][XAxisId] - AugRows[1][XAxisId]) \div IntervalMillis) + 1

\* C4 as stated: density for every non-decreasing source table.
C4_DensityAnySource ==
    (Extended /\ RangeOrdered /\ NonDecreasing(Keys(SourceTable.rows, XAxisId)))
        => DenseOutput

\* C4 amended: density when the source table is empty or its own consecutive
\* keys differ by exactly the interval.
C4_Density ==
    (Extended /\ RangeOrdered /\ Dense(Keys(SourceTable.rows, XAxisId), IntervalMillis))
        => DenseOutput

\* Witness of C4: a dense source table of two rows was extended.
C4_Witness ==
    /\ Extended
    /\ RangeOrdered
    /\ Len(SourceTable.rows) = 2
    /\ Dense(Keys(SourceTable.rows, XAxisId), IntervalMillis)
    /\ Len(AugRows) >= 3

-----------------------------------------------------------------------------
(* C5 *)

\* C5: range coverage. With an ordered chart range the output of
\* addMissingRowsToTableBounds is not empty, is non-decreasing when the source
\* is, starts at most one interval after the range start and ends at most one
\* interval before the range end.
C5_RangeCoverage ==
    (Extended /\ RangeOrdered)
        => /\ Len(AugRows) >= 1
           /\ NonDecreasing(Keys(SourceTable.rows, XAxisId))
                => NonDecreasing(Keys(AugRows, XAxisId))
           /\ AugRows[1][XAxisId] <= ChartStartTime + IntervalMillis
           /\ AugRows[Len(AugRows)][XAxisId] >= ChartEndTime - IntervalMillis

\* Witness of C5: a source table with rows was extended beyond both chart bounds.
C5_Witness ==
    /\ Extended
    /\ RangeOrdered
    /\ Len(SourceTable.rows) >= 1
    /\ Len(AugRows) >= Len(SourceTable.rows) + 2
    /\ AugRows[1][XAxisId] < ChartStartTime
    /\ AugRows[Len(AugRows)][XAxisId] > ChartEndTime

-----------------------------------------------------------------------------
(* C6 *)

\* The output is synthesized rows, the source rows as they are, synthesized
\* rows; a synthesized row holds the axis key only
SourceRowsKept ==
    \E before \in 0..(Len(AugRows) - Len(SourceTable.rows)) :
       /\ SubSeq(AugRows, before + 1, before + Len(SourceTable.rows)) = SourceTable.rows
       /\ \A j \in 1..Len(AugRows) :
            (j <= before \/ j > before + Len(SourceTable.rows))
               => DOMAIN AugRows[j] = {XAxisId}

\* C6: bounds extension keeps the source rows, in order and with their values,
\* between two runs of rows that hold the axis key only, and no step of the
\* call changes the caller's table.
C6_PreservesRows ==
    /\ [](Extended => SourceRowsKept)
    /\ [][heap'[DatatableRef] = heap[DatatableRef]]_vars

\* Witness of C6: rows were synthesized before and after two source rows.
C6_Witness ==
    /\ Extended
    /\ Len(SourceTable.rows) = 2
    /\ DOMAIN AugRows[1] = {XAxisId}
    /\ DOMAIN AugRows[Len(AugRows)] = {XAxisId}
    /\ SourceRowsKept

-----------------------------------------------------------------------------
(* C7 *)

\* C7: empty input synthesis. For a source table without rows and an ordered
\* chart range the output rows hold the axis key only, with the keys
\* rangeStart + k * interval <= rangeEnd, k >= 0, in ascending order.
C7_EmptyInputSynthesis ==
    (Extended /\ RangeOrdered /\ IsEmpty(SourceTable.rows))
        => AugRows =
             [k \in 1..(((ChartEndTime - ChartStartTime) \div IntervalMillis) + 1) |->
                NewRow(XAxisId, ChartStartTime + (k - 1) * IntervalMillis)]

\* Witness of C7: three rows were synthesized for an empty source table.
C7_Witness ==
    /\ Extended
    /\ RangeOrdered
    /\ IsEmpty(SourceTable.rows)
    /\ Len(AugRows) = 3

-----------------------------------------------------------------------------
(* C8 *)

\* C8: single row collapse. When the table has exactly one row, that row holds
\* for every vis layer supplied the number of events of the layer.
C8_SingleRowCollapse ==
    (Done /\ Len(Returned.rows) = 1)
        => \A i \in 1..Len(visLayers) :
             Get(Returned.rows[1], LayerId(i), Undefined) = Len(visLayers[i].events)

-----------------------------------------------------------------------------
(* C9 *)

IsPrefix(prefix, string) ==
    Len(prefix) <= Len(string) /\ SubSeq(string, 1, Len(prefix)) = prefix

\* The parts of a string between the occurrences of a separator
RECURSIVE SplitFrom(_, _, _)
SplitFrom(string, separator, part) ==
    IF string = <<>> THEN <<part>>
    ELSE IF IsPrefix(separator, string)
         THEN <<part>> \o SplitFrom(SubSeq(string, Len(separator) + 1, Len(string)),
                                    separator, <<>>)
    ELSE SplitFrom(Tail(string), separator, Append(part, Head(string)))

Split(string, separator) == SplitFrom(string, separator, <<>>)

\* The value of a predicate datum['<id>'] > 0 on a row: a field the row does
\* not hold is undefined, and undefined > 0 is false
PredicateHolds(predicate, row) ==
    /\ IsPrefix(DatumOpen, predicate)
    /\ Len(predicate) >= Len(DatumOpen) + Len(DatumClose)
    /\ SubSeq(predicate, Len(predicate) - Len(DatumClose) + 1, Len(predicate)) = DatumClose
    /\ LET id == SubSeq(predicate, Len(DatumOpen) + 1, Len(predicate) - Len(DatumClose))
       IN  HasField(row, id) /\ row[id] > 0

\* The value of a filter expression on a row: false, or a disjunction
ExpressionHolds(expression, row) ==
    /\ expression # FalseLiteral
    /\ \E i \in 1..Len(Split(expression, OrSeparator)) :
          PredicateHolds(Split(expression, OrSeparator)[i], row)

\* C9: the filter string is the literal false exactly for the empty list of
\* ids; otherwise its parts between " || " are the predicates datum['<id>'] > 0
\* of the ids, in order; and it holds on a row iff the row holds a value above
\* zero in a listed column.
C9_FilterString ==
    pc = "filtered"
        => /\ filterString = FalseLiteral <=> IsEmpty(visLayerColumnIds)
           /\ ~IsEmpty(visLayerColumnIds)
                => Split(filterString, OrSeparator) =
                     [i \in 1..Len(visLayerColumnIds) |->
                        DatumOpen \o visLayerColumnIds[i] \o DatumClose]
           /\ ExpressionHolds(filterString, datum)
                <=> \E i \in 1..Len(visLayerColumnIds) :
                       /\ HasField(datum, visLayerColumnIds[i])
                       /\ datum[visLayerColumnIds[i]] > 0

\* Witness of C9: the filter of two ids holds on a row because of the second.
C9_Witness ==
    /\ pc = "filtered"
    /\ Len(visLayerColumnIds) = 2
    /\ visLayerColumnIds[1] # visLayerColumnIds[2]
    /\ Get(datum, visLayerColumnIds[1], 0) = 0
    /\ Get(datum, visLayerColumnIds[2], 0) > 0
    /\ ExpressionHolds(filterString, datum)

-----------------------------------------------------------------------------
(* C10 *)

SourceColumnIds == {SourceTable.columns[i].id : i \in 1..Len(SourceTable.columns)}

\* C10: with an empty list of vis layers the call returns the bounds-extended
\* table as it is: the step after the extension returns that table, its columns
\* are the source's and no row holds a field the source has no column for.
C10_NoLayersNoChange ==
    /\ []((Done /\ IsEmpty(visLayers))
            => /\ Returned.columns = SourceTable.columns
               /\ \A j \in 1..Len(Returned.rows) :
                    DOMAIN Returned.rows[j] \subseteq SourceColumnIds)
    /\ [][(Extended /\ IsEmpty(visLayers))
            => (pc' = "done" /\ heap'[returned'] = heap[augmentedTable])]_vars

\* Witness of C10: a call without vis layers returned a table with more rows
\* than the source table.
C10_Witness ==
    /\ Done
    /\ IsEmpty(visLayers)
    /\ Len(Returned.rows) > Len(SourceTable.rows)
    /\ Len(SourceTable.rows) >= 1

-----------------------------------------------------------------------------
(* C11 *)

\* C11 as stated, for the tables that are binned row by row: in a returned
\* table of two or more rows every row holds a field for every vis layer.
C11_FieldInEveryRow ==
    (Done /\ Len(Returned.rows) >= 2)
        => \A i \in 1..Len(visLayers) : \A j \in 1..Len(Returned.rows) :
             HasField(Returned.rows[j], LayerId(i))

\* C11 amended: in a returned table of two or more rows a row holds a field
\* for a vis layer only when an event of the layer was counted in it, the
\* field is then the row's count, at least 1, and the rows without the field
\* count for 0: the fields of a layer sum up to the number of its events.
C11_FieldWhereCounted ==
    (Done /\ Len(Returned.rows) >= 2)
        => \A i \in 1..Len(visLayers) :
             /\ \A j \in 1..Len(Returned.rows) :
                  HasField(Returned.rows[j], LayerId(i))
                     => Returned.rows[j][LayerId(i)] >= 1
             /\ ColumnSum(Returned.rows, LayerId(i)) = Len(visLayers[i].events)

\* Witness of C11: both events of a layer were counted in one row of a table
\* whose other rows do not hold the field.
C11_Witness ==
    /\ Done
    /\ Len(Returned.rows) >= 3
    /\ Len(visLayers) >= 1
    /\ \E j \in 1..Len(Returned.rows) :
          /\ Get(Returned.rows[j], LayerId(1), 0) = 2
          /\ \A k \in 1..Len(Returned.rows) :
               k # j => ~HasField(Returned.rows[k], LayerId(1))

-----------------------------------------------------------------------------
(* C12 *)

\* C12: the cursor invariant. While a vis layer is binned the cursor is within
\* 0..rows.length - 2; it is 0 when the binning of a layer starts; between the
\* timestamps of a layer it stays or moves on by one, so it is never reset or
\* decreased and moves at most rows.length - 2 times for a layer.
C12_CursorInvariant ==
    /\ [](pc = "bin" => (0 <= rowIndex /\ rowIndex <= Len(AugRows) - 2))
    /\ [][(pc # "bin" /\ pc' = "bin") => rowIndex' = 0]_vars
    /\ [][(pc = "bin" /\ pc' = "bin")
            => (rowIndex' = rowIndex \/ rowIndex' = rowIndex + 1)]_vars

\* Witness of C12: the binning of the second layer starts with the cursor at 0
\* after the first layer moved it (its event was counted in the last of three
\* or more rows).
C12_Witness ==
    /\ pc = "bin"
    /\ layerIndex = 2
    /\ rowIndex = 0
    /\ tsIndex = 1
    /\ Len(AugRows) >= 3
    /\ HasField(AugRows[Len(AugRows)], LayerId(1))

-----------------------------------------------------------------------------
(* C13 *)

\* forEach moves on to the next timestamp in this step
TimestampHandled == pc = "bin" /\ pc' = "bin" /\ tsIndex' = tsIndex + 1

\* Exactly one row's counter for the column id goes up by one, nothing else
\* in the rows changes
OneIncrement(rows, rowsAfter, id) ==
    /\ Len(rowsAfter) = Len(rows)
    /\ \E j \in 1..Len(rows) :
          /\ rowsAfter[j] = SetField(rows[j], id, Get(rows[j], id, 0) + 1)
          /\ \A k \in 1..Len(rows) : k # j => rowsAfter[k] = rows[k]

\* C13: termination. Every call of addPointInTimeEventsLayersToTable returns
\* (the loops of the bounds extension and the search loops end), and the
\* search loop of every timestamp ends with exactly one increment of one row's
\* counter for the layer.
C13_Termination ==
    /\ <>Done
    /\ [][TimestampHandled
            => OneIncrement(AugRows, heap'[augmentedTable'].rows, LayerId(layerIndex))]_vars

\* Witness of C13: the call returned after rows were prepended and appended
\* and after the cursor had moved for a counted event.
C13_Witness ==
    /\ Done
    /\ Len(SourceTable.rows) >= 1
    /\ Returned.rows[1][XAxisId] < SourceTable.rows[1][XAxisId]
    /\ Returned.rows[Len(Returned.rows)][XAxisId] > dataEndTime
    /\ Len(visLayers) >= 1
    /\ rowIndex > 0
    /\ rowIndexToInsert # Undefined

-----------------------------------------------------------------------------
(* C14 *)

RouteReturned == route.pc = "returned"

\* C14: the connection-test route handler returns exactly one response and no
\* error escapes it; the response is ok with success true exactly when nothing
\* was thrown, which takes both the client and the validation; otherwise it is
\* a custom error with the error's statusCode, or 500 when the error has none;
\* and the validator is not run when obtaining the client failed.
C14_RouteResponse ==
    /\ [](/\ route.pc # "escaped"
          /\ Len(route.responses) = (IF RouteReturned THEN 1 ELSE 0)
          /\ RouteReturned =>
                LET response == route.responses[1]
                    err == route.thrown
                IN  /\ (response = OkResponse)
                          <=> (err = NoError /\ route.validatorRuns = 1)
                    /\ err # NoError =>
                          /\ response.kind = "customError"
                          /\ response.statusCode =
                                (IF err.statusCode = Undefined THEN 500
                                                               ELSE err.statusCode))
    /\ [][route'.validatorRuns # route.validatorRuns
            => (/\ route.pc = "getDataSourceClient"
                /\ route'.thrown = NoError
                /\ route'.validatorRuns = 1)]_vars
    /\ [][(route.thrown # NoError /\ route.validatorRuns = 0)
            => route'.validatorRuns = 0]_vars

\* Witness of C14: validation failed with an error that has no statusCode and
\* the handler answered with the custom error 500.
C14_Witness ==
    /\ RouteReturned
    /\ route.validatorRuns = 1
    /\ route.thrown.statusCode = Undefined
    /\ route.thrown.body.defined
    /\ route.responses = <<CustomError(route.thrown)>>
    /\ route.responses[1].statusCode = 500

-----------------------------------------------------------------------------
(* C15 *)

\* The calls of onSave whose promise settled as given
CallsSettled(settled) ==
    {i \in 1..Len(flyout.calls) : flyout.calls[i].settled = settled}

\* C15: in SaveQueryFlyout the save handler calls onClose only after the
\* onSave promise resolved; when onSave rejects it does not call onClose and
\* its own promise does not reject; saveAsNew starts as true exactly when no
\* saved query was supplied, is what onSave receives, and never goes back to
\* false.
C15_CloseAfterSave ==
    /\ flyout.saveAsNew <=> ~flyout.savedQuery
    /\ [](\A i \in 1..Len(flyout.calls) :
            LET call == flyout.calls[i]
            IN  /\ call.closed <=> call.settled = "resolved"
                /\ call.settled = "rejected" => call.result = "fulfilled"
                /\ call.result # "rejected"
                /\ ~call.saveAsNew => flyout.savedQuery
                /\ \A j \in 1..i : flyout.calls[j].saveAsNew => call.saveAsNew)
    /\ [](flyout.closes = flyout.formCloses + Cardinality(CallsSettled("resolved")))
    /\ [][flyout.saveAsNew => flyout'.saveAsNew]_vars
    /\ [][Len(flyout'.calls) > Len(flyout.calls)
            => flyout'.calls[Len(flyout'.calls)].saveAsNew = flyout.saveAsNew]_vars
    /\ [][Cardinality(CallsSettled("rejected")') > Cardinality(CallsSettled("rejected"))
            => flyout'.closes = flyout.closes]_vars

\* Witness of C15: a saved query was supplied; a save that was not as new was
\* rejected and left the flyout open, then a save as new resolved and closed
\* it.
C15_Witness ==
    /\ flyout.savedQuery
    /\ Len(flyout.calls) = 2
    /\ ~flyout.calls[1].saveAsNew
    /\ flyout.calls[1].settled = "rejected"
    /\ ~flyout.calls[1].closed
    /\ flyout.calls[2].saveAsNew
    /\ flyout.calls[2].settled = "resolved"
    /\ flyout.calls[2].closed
    /\ flyout.closes = 1

====
